---- MODULE Spec2Model ----
(***************************************************************************)
(* setup-fpm (src/index.js): one run of main(), step by step.  Strings the *)
(* code rewrites (the version, the artifact filename, compiler names) are  *)
(* sequences of one-character strings; platform and architecture, which    *)
(* the code only compares for equality, are atomic strings.  Every call on *)
(* an external collaborator (release query, downloadTool, which, mkdirP,   *)
(* extractTar, bash install.sh, chmod, mv, rmRF) is one step whose outcome *)
(* (resolve / throw) is chosen by the environment and logged in calls.     *)
(***************************************************************************)
EXTENDS Integers, Sequences, FiniteSets, TLC

\* ------------------------------------------------------------------ bounds
MaxMajor == 1
MaxMinor == 10
MaxPatch == 1

\* ------------------------------------------------- strings as char tuples
Digit == <<"0", "1", "2", "3", "4", "5", "6", "7", "8", "9">>

DigitChars == {Digit[i] : i \in 1..10}

DigitVal(c) == (CHOOSE i \in 1..10 : Digit[i] = c) - 1

RECURSIVE ToDigits(_)
\* decimal text of a natural number, as a template literal prints it
ToDigits(n) == IF n < 10 THEN <<Digit[n + 1]>>
               ELSE ToDigits(n \div 10) \o <<Digit[(n % 10) + 1]>>

RECURSIVE IndexFrom(_, _, _)
\* position of the first occurrence of character c in s at or after i, 0 if none
IndexFrom(s, c, i) == IF i > Len(s) THEN 0
                      ELSE IF s[i] = c THEN i
                      ELSE IndexFrom(s, c, i + 1)

\* String.prototype.replace(c, '') with a string pattern: drops the first
\* occurrence of c, wherever it stands, and nothing else
ReplaceFirst(s, c) ==
  LET k == IndexFrom(s, c, 1)
  IN IF k = 0 THEN s ELSE SubSeq(s, 1, k - 1) \o SubSeq(s, k + 1, Len(s))

RECURSIVE Split(_, _)
\* String.prototype.split(c): the pieces between occurrences of c
Split(s, c) ==
  LET k == IndexFrom(s, c, 1)
  IN IF k = 0 THEN <<s>>
     ELSE <<SubSeq(s, 1, k - 1)>> \o Split(SubSeq(s, k + 1, Len(s)), c)

\* var fpmPath before any assignment
undefined == [dir |-> "undefined", base |-> <<>>]

\* a JavaScript number, as far as the version gate can tell them apart
NaN == [nan |-> TRUE, val |-> 0]
Num(n) == [nan |-> FALSE, val |-> n]

RECURSIVE DecVal(_)
DecVal(s) == IF s = <<>> THEN 0
             ELSE 10 * DecVal(SubSeq(s, 1, Len(s) - 1)) + DigitVal(s[Len(s)])

\* Number(s) on a piece of a version string: the empty string is 0, a run
\* of decimal digits is its value, anything holding another character NaN
Number(s) == IF \A i \in 1..Len(s) : s[i] \in DigitChars THEN Num(DecVal(s)) ELSE NaN

\* a === n and a < n on numbers: both are false of NaN
StrictEq(a, n) == ~a.nan /\ a.val = n
LessThan(a, n) == ~a.nan /\ a.val < n


\* ---------------------------------------------------------- program text
FpmPrefix == <<"f", "p", "m", "-">>
LinuxTok == <<"l", "i", "n", "u", "x", "-">>
MacosTok == <<"m", "a", "c", "o", "s", "-">>
WindowsTok == <<"w", "i", "n", "d", "o", "w", "s", "-">>
X86_64 == <<"x", "8", "6", "_", "6", "4">>
Arm64 == <<"a", "r", "m", "6", "4">>
ExeSuffix == <<".", "e", "x", "e">>
Latest == <<"l", "a", "t", "e", "s", "t">>
Gfortran == <<"g", "f", "o", "r", "t", "r", "a", "n">>

\* the suffixes with gcc-11 tried before gcc-10
compilers_swapped == << <<"g", "c", "c", "-", "1", "1">>,
                        <<"g", "c", "c", "-", "1", "0">>,
                        <<"g", "c", "c", "-", "1", "2">>,
                        <<"g", "c", "c", "-", "1", "3">>,
                        <<"g", "c", "c", "-", "1", "4">> >>

\* line 65: the compiler suffixes tried after the untagged name
compilers == << <<"g", "c", "c", "-", "1", "0">>,
                <<"g", "c", "c", "-", "1", "1">>,
                <<"g", "c", "c", "-", "1", "2">>,
                <<"g", "c", "c", "-", "1", "3">>,
                <<"g", "c", "c", "-", "1", "4">> >>

\* the versioned compilers probed oldest first
gfortranVersions_ascending == <<10, 11, 12, 13>>

\* line 226: the versioned compilers probed, in this order
gfortranVersions == <<13, 12, 11, 10>>

GfortranName(ver) == Gfortran \o <<"-">> \o ToDigits(ver)

\* getFPMFilename with the extension added before the compiler suffix
getFPMFilename_extFirst(version, plat, ar, compiler) ==
  LET fpmArch == IF ar = "arm64" THEN Arm64 ELSE X86_64
      head == FpmPrefix \o ReplaceFirst(version, "v") \o <<"-">>
      osPart == IF plat = "linux" THEN LinuxTok \o fpmArch
                ELSE IF plat = "darwin" THEN MacosTok \o fpmArch
                ELSE IF plat = "win32" THEN WindowsTok \o fpmArch
                ELSE <<>>
      tagPart == IF compiler # <<>> THEN <<"-">> \o compiler ELSE <<>>
      ext == IF plat = "win32" THEN ExeSuffix ELSE <<>>
  IN [name |-> head \o osPart \o ext \o tagPart,
      setFailed |-> plat \notin {"linux", "darwin", "win32"}]

\* getFPMFilename with an unrecognized architecture left without a name
getFPMFilename_archPartial(version, plat, ar, compiler) ==
  LET fpmArch == IF ar = "arm64" THEN Arm64 ELSE IF ar = "x64" THEN X86_64 ELSE <<>>
      head == FpmPrefix \o ReplaceFirst(version, "v") \o <<"-">>
      osPart == IF plat = "linux" THEN LinuxTok \o fpmArch
                ELSE IF plat = "darwin" THEN MacosTok \o fpmArch
                ELSE IF plat = "win32" THEN WindowsTok \o fpmArch
                ELSE <<>>
      tagPart == IF compiler # <<>> THEN <<"-">> \o compiler ELSE <<>>
      ext == IF plat = "win32" THEN ExeSuffix ELSE <<>>
  IN [name |-> head \o osPart \o tagPart \o ext,
      setFailed |-> plat \notin {"linux", "darwin", "win32"} \/ ar \notin {"arm64", "x64"}]

\* getFPMFilename: the name built, and whether it called core.setFailed
getFPMFilename(version, plat, ar, compiler) ==
  LET fpmArch == IF ar = "arm64" THEN Arm64 ELSE X86_64
      head == FpmPrefix \o ReplaceFirst(version, "v") \o <<"-">>
      osPart == IF plat = "linux" THEN LinuxTok \o fpmArch
                ELSE IF plat = "darwin" THEN MacosTok \o fpmArch
                ELSE IF plat = "win32" THEN WindowsTok \o fpmArch
                ELSE <<>>
      tagPart == IF compiler # <<>> THEN <<"-">> \o compiler ELSE <<>>
      ext == IF plat = "win32" THEN ExeSuffix ELSE <<>>
  IN [name |-> head \o osPart \o tagPart \o ext,
      setFailed |-> plat \notin {"linux", "darwin", "win32"}]

\* the gate with the minor bound one too low
isOldVersion_lt8(version) ==
  LET parts == Split(ReplaceFirst(version, "v"), ".")
      versionParts == [i \in 1..Len(parts) |-> Number(parts[i])]
  IN /\ StrictEq(versionParts[1], 0)
     /\ Len(versionParts) >= 2
     /\ LessThan(versionParts[2], 8)

\* the gate made to reject whatever does not parse
isOldVersion_failClosed(version) ==
  LET parts == Split(ReplaceFirst(version, "v"), ".")
      versionParts == [i \in 1..Len(parts) |-> Number(parts[i])]
  IN \/ versionParts[1].nan
     \/ /\ StrictEq(versionParts[1], 0)
        /\ Len(versionParts) >= 2
        /\ LessThan(versionParts[2], 9)

\* lines 91-93: the version gate of main
isOldVersion(version) ==
  LET versionNum == ReplaceFirst(version, "v")
      parts == Split(versionNum, ".")
      versionParts == [i \in 1..Len(parts) |-> Number(parts[i])]
  IN /\ StrictEq(versionParts[1], 0)
     /\ Len(versionParts) >= 2     \* undefined < 9 is false
     /\ LessThan(versionParts[2], 9)

\* ------------------------------------------------------------ the inputs
NumericVersions ==
  {pre \o ToDigits(ma) \o <<".">> \o ToDigits(mi) \o <<".">> \o ToDigits(pa) :
     pre \in {<<>>, <<"v">>}, ma \in 0..MaxMajor, mi \in 0..MaxMinor, pa \in 0..MaxPatch}

OddVersions == { <<"d", "e", "v">>, <<"v", "0">>, <<"v", "0", ".">>,
                 <<"0", ".", "9", ".", "0", "-", "d", "e", "v">> }

ExplicitVersions == NumericVersions \cup OddVersions

VersionInputs == ExplicitVersions \cup {Latest}

\* tag names the release index may answer with
ReleaseTags == { <<"v", "0", ".", "8", ".", "0">>, <<"v", "0", ".", "1", "0", ".", "1">> }

Tokens == {"none", "ghp_token"}
Platforms == {"linux", "darwin", "win32", "freebsd"}
Archs == {"x64", "arm64", "ia32"}

\* directories the code names
TempDir == "RUNNER_TEMP"
BuildDir == "RUNNER_TEMP/fpm-build"
InstallDir == "HOME/.local/bin"

\* lines 125 and 129: the fixed name the download is renamed to
FpmName == <<"f", "p", "m">>
FpmExeName == <<"f", "p", "m", ".", "e", "x", "e">>

VARIABLES
  versionInput,   \* core.getInput('fpm-version')
  token,          \* core.getInput('github-token')
  platform,       \* process.platform
  arch,           \* os.arch()
  fpmVersion,     \* var fpmVersion of main
  pc,             \* position of the run
  cand,           \* index into compilers of the suffix being tried
  fpmPath,        \* var fpmPath of main: undefined or [dir, base]
  failures,       \* the messages given to core.setFailed, in order
  calls,          \* the calls made on external collaborators, in order
  files,          \* files the run has put on disk: [dir, base, exec]
  dirs,           \* directories the run has created and not removed
  pathDirs,       \* directories given to core.addPath, in order
  foundGfortran,  \* let foundGfortran of installFromSource
  gfortranCmd,    \* let gfortranCmd of installFromSource
  ver             \* index into gfortranVersions of the compiler being probed

vars == <<versionInput, token, platform, arch, fpmVersion, pc, cand, fpmPath,
          failures, calls, files, dirs, pathDirs, foundGfortran, gfortranCmd, ver>>

inputs == <<versionInput, token, platform, arch>>
srcVars == <<foundGfortran, gfortranCmd, ver>>

failed == failures # <<>>

Call(op, arg, ok) == [op |-> op, arg |-> arg, ok |-> ok]

ReleaseUrl(tag, file) == [kind |-> "releases/download", tag |-> tag, file |-> file]
ArchiveUrl(tag) == [kind |-> "archive/refs/tags", tag |-> tag]

\* tc.downloadTool stores the body under the temp directory with a fresh name
NewTempFile == [dir |-> TempDir,
                base |-> <<"uuid">> \o ToDigits(Cardinality({i \in 1..Len(calls) : calls[i].op = "downloadTool"}))]

Init ==
  /\ versionInput \in VersionInputs
  /\ token \in Tokens
  /\ platform \in Platforms
  /\ arch \in Archs
  /\ fpmVersion = versionInput
  /\ pc = "start"
  /\ cand = 1
  /\ fpmPath = undefined
  /\ failures = <<>>
  /\ calls = <<>>
  /\ files = {}
  /\ dirs = {}
  /\ pathDirs = <<>>
  /\ foundGfortran = FALSE
  /\ gfortranCmd = Gfortran
  /\ ver = 1

\* lines 16-29: read the inputs; 'latest' without a token is reported, and
\* the run goes on to the query
ReadInputs ==
  /\ pc = "start"
  /\ IF fpmVersion = Latest
       THEN /\ pc' = "query"
            /\ failures' = IF token = "none" THEN Append(failures, "TokenMissing")
                           ELSE failures
       ELSE /\ pc' = "build"
            /\ failures' = failures
  /\ UNCHANGED <<inputs, fpmVersion, cand, fpmPath, calls, files, dirs, pathDirs, srcVars>>

\* lines 31-39: getLatestReleaseVersion; a throw is reported and swallowed
QueryLatest ==
  /\ pc = "query"
  /\ \/ \E tag \in ReleaseTags :
          /\ fpmVersion' = tag
          /\ calls' = Append(calls, Call("getLatestReleaseVersion", token, TRUE))
          /\ failures' = failures
     \/ /\ fpmVersion' = fpmVersion
        /\ calls' = Append(calls, Call("getLatestReleaseVersion", token, FALSE))
        /\ failures' = Append(failures, "LatestQueryFailed")
  /\ pc' = "build"
  /\ UNCHANGED <<inputs, cand, fpmPath, files, dirs, pathDirs, srcVars>>

\* lines 43-52: the download path and the first getFPMFilename call
BuildPath ==
  /\ pc = "build"
  /\ failures' = IF getFPMFilename(fpmVersion, platform, arch, <<>>).setFailed
                   THEN Append(failures, "UnknownPlatform") ELSE failures
  /\ pc' = "fetch"
  /\ UNCHANGED <<inputs, fpmVersion, cand, fpmPath, calls, files, dirs, pathDirs, srcVars>>

\* lines 62-65 and 79-81: the catch of a failed download reports nothing
catchDownloadError_setFailed(fails) == Append(fails, "FetchFailed")

catchDownloadError(fails) == fails

\* line 87: the one platform/architecture pair that falls back to a source build
sourceFallbackPlatform_anyDarwin(plat, ar) == plat = "darwin"

sourceFallbackPlatform(plat, ar) == plat = "darwin" /\ ar = "arm64"

\* line 238: no versioned and no unversioned compiler was found
compilerMissing_inverted(foundVersioned, found) == ~foundVersioned /\ found

compilerMissing(foundVersioned, found) == ~foundVersioned /\ ~found

\* the executable flag forgotten
AfterDownload_skipChmod == "mv"

\* lines 112-116: where the run goes once fpmPath holds a path
AfterDownload == IF platform \in {"linux", "darwin"} THEN "chmod" ELSE "mv"

\* lines 56-62: the name without compiler suffix
DownloadUntagged ==
  /\ pc = "fetch"
  /\ LET f == getFPMFilename(fpmVersion, platform, arch, <<>>)
         url == ReleaseUrl(fpmVersion, f.name)
         reported == IF f.setFailed THEN Append(failures, "UnknownPlatform") ELSE failures
     IN \E ok \in BOOLEAN :
             /\ failures' = IF ok THEN reported ELSE catchDownloadError(reported)
             /\ calls' = Append(calls, Call("downloadTool", url, ok))
             /\ IF ok
                  THEN /\ fpmPath' = NewTempFile
                       /\ files' = files \cup {[dir |-> NewTempFile.dir, base |-> NewTempFile.base, exec |-> FALSE]}
                       /\ pc' = AfterDownload
                  ELSE /\ fpmPath' = fpmPath
                       /\ files' = files
                       /\ pc' = "suffix"
  /\ cand' = 1
  /\ UNCHANGED <<inputs, fpmVersion, dirs, pathDirs, srcVars>>

\* the loop left at the first failed suffix
afterFailedSuffix_giveUp(c) == "exhausted"

\* lines 69 and 83-85: after a failed suffix the loop goes on to the next
\* one, and past the last one the run acts on !success
afterFailedSuffix(c) == IF c < Len(compilers) THEN "suffix" ELSE "exhausted"

\* lines 69-83: one turn of the loop over the compiler suffixes
DownloadSuffixed ==
  /\ pc = "suffix"
  /\ cand <= Len(compilers)
  /\ LET f == getFPMFilename(fpmVersion, platform, arch, compilers[cand])
         url == ReleaseUrl(fpmVersion, f.name)
         reported == IF f.setFailed THEN Append(failures, "UnknownPlatform") ELSE failures
     IN \E ok \in BOOLEAN :
             /\ failures' = IF ok THEN reported ELSE catchDownloadError(reported)
             /\ calls' = Append(calls, Call("downloadTool", url, ok))
             /\ IF ok
                  THEN /\ fpmPath' = NewTempFile
                       /\ files' = files \cup {[dir |-> NewTempFile.dir, base |-> NewTempFile.base, exec |-> FALSE]}
                       /\ pc' = AfterDownload
                       /\ cand' = cand
                  ELSE /\ fpmPath' = fpmPath
                       /\ files' = files
                       /\ cand' = cand + 1
                       /\ pc' = afterFailedSuffix(cand)
  /\ UNCHANGED <<inputs, fpmVersion, dirs, pathDirs, srcVars>>

\* lines 85-109, then 112-113 and 137-139: no candidate was downloaded.
\* On darwin/arm64 the version gate decides between the source build and a
\* failure; elsewhere the failure is reported, and path.dirname(undefined)
\* then throws into the outer catch, which reports its message
Exhausted ==
  /\ pc = "exhausted"
  /\ IF sourceFallbackPlatform(platform, arch)
       THEN IF isOldVersion(fpmVersion)
              THEN /\ failures' = Append(failures, "SourceBuildUnsupported")
                   /\ pc' = "done"
              ELSE /\ failures' = failures
                   /\ pc' = "which"
       ELSE /\ failures' = failures \o <<"FetchFailed", "PathArgumentType">>
            /\ pc' = "done"
  /\ UNCHANGED <<inputs, fpmVersion, cand, fpmPath, calls, files, dirs, pathDirs, srcVars>>

\* lines 116-120: chmod u+x on linux and darwin; a throw goes to the outer catch
Chmod ==
  /\ pc = "chmod"
  /\ \E ok \in BOOLEAN :
       /\ calls' = Append(calls, Call("chmod", fpmPath, ok))
       /\ IF ok
            THEN /\ files' = {IF f.dir = fpmPath.dir /\ f.base = fpmPath.base
                                THEN [f EXCEPT !.exec = TRUE] ELSE f : f \in files}
                 /\ failures' = failures
                 /\ pc' = "mv"
            ELSE /\ files' = files
                 /\ failures' = Append(failures, "ExecError")
                 /\ pc' = "done"
  /\ UNCHANGED <<inputs, fpmVersion, cand, fpmPath, dirs, pathDirs, srcVars>>

\* the Windows extension forgotten
TargetName_alwaysFpm == FpmName

\* lines 123-131: the name the download is moved to, in its own directory
TargetName == IF platform = "win32" THEN FpmExeName ELSE FpmName

\* lines 113 and 123-135: io.mv to the fixed name, then core.addPath of the
\* download directory; a throw of io.mv goes to the outer catch
Rename ==
  /\ pc = "mv"
  /\ LET downloadDir == fpmPath.dir
         dest == [dir |-> downloadDir, base |-> TargetName]
     IN \E ok \in BOOLEAN :
          IF ok
            THEN /\ calls' = calls \o <<Call("mv", [from |-> fpmPath, to |-> dest], TRUE),
                                         Call("addPath", downloadDir, TRUE)>>
                 /\ files' = {IF f.dir = fpmPath.dir /\ f.base = fpmPath.base
                                THEN [f EXCEPT !.base = TargetName] ELSE f : f \in files}
                 /\ pathDirs' = Append(pathDirs, downloadDir)
                 /\ failures' = failures
            ELSE /\ calls' = Append(calls, Call("mv", [from |-> fpmPath, to |-> dest], FALSE))
                 /\ files' = files
                 /\ pathDirs' = pathDirs
                 /\ failures' = Append(failures, "MoveError")
  /\ pc' = "done"
  /\ UNCHANGED <<inputs, fpmVersion, cand, fpmPath, dirs, srcVars>>

\* ------------------------------------------------------ installFromSource
\* lines 215-220: probe the unversioned compiler
WhichGfortran ==
  /\ pc = "which"
  /\ \E ok \in BOOLEAN :
       /\ calls' = Append(calls, Call("which", Gfortran, ok))
       /\ foundGfortran' = ok
  /\ ver' = 1
  /\ pc' = "whichVersioned"
  /\ UNCHANGED <<inputs, fpmVersion, cand, fpmPath, failures, files, dirs, pathDirs, gfortranCmd>>

\* lines 224-248: one turn of the loop over gfortran-13 .. gfortran-10, and
\* after its last turn the check that some compiler was found
WhichVersioned ==
  /\ pc = "whichVersioned"
  /\ ver <= Len(gfortranVersions)
  /\ LET name == GfortranName(gfortranVersions[ver])
     IN \E ok \in BOOLEAN :
          /\ calls' = Append(calls, Call("which", name, ok))
          /\ IF ok
               THEN /\ gfortranCmd' = name
                    /\ ver' = ver
                    /\ failures' = failures
                    /\ pc' = "tarball"
               ELSE /\ gfortranCmd' = gfortranCmd
                    /\ ver' = ver + 1
                    /\ IF ver < Len(gfortranVersions)
                         THEN /\ failures' = failures
                              /\ pc' = "whichVersioned"
                         ELSE IF compilerMissing(FALSE, foundGfortran)
                           THEN /\ failures' = Append(failures, "CompilerNotFound")
                                /\ pc' = "done"
                           ELSE /\ failures' = failures
                                /\ pc' = "tarball"
  /\ UNCHANGED <<inputs, fpmVersion, cand, fpmPath, files, dirs, pathDirs, foundGfortran>>

\* the catch of installFromSource swallowing the error
SourceFailure_silent == failures

\* line 294: the catch of installFromSource reports the error
SourceFailure == Append(failures, "InstallFromSourceFailed")

\* lines 250-255: download the source archive of the requested tag
DownloadSource ==
  /\ pc = "tarball"
  /\ \E ok \in BOOLEAN :
       /\ calls' = Append(calls, Call("downloadTool", ArchiveUrl(fpmVersion), ok))
       /\ IF ok
            THEN /\ files' = files \cup {[dir |-> NewTempFile.dir, base |-> NewTempFile.base, exec |-> FALSE]}
                 /\ failures' = failures
                 /\ pc' = "mkdirBuild"
            ELSE /\ files' = files
                 /\ failures' = SourceFailure
                 /\ pc' = "done"
  /\ UNCHANGED <<inputs, fpmVersion, cand, fpmPath, dirs, pathDirs, srcVars>>

\* lines 257-259: create the build directory
MakeBuildDir ==
  /\ pc = "mkdirBuild"
  /\ \E ok \in BOOLEAN :
       /\ calls' = Append(calls, Call("mkdirP", BuildDir, ok))
       /\ IF ok
            THEN /\ dirs' = dirs \cup {BuildDir}
                 /\ failures' = failures
                 /\ pc' = "extract"
            ELSE /\ dirs' = dirs
                 /\ failures' = SourceFailure
                 /\ pc' = "done"
  /\ UNCHANGED <<inputs, fpmVersion, cand, fpmPath, files, pathDirs, srcVars>>

\* lines 261-263: extract the archive into the build directory
ExtractTar ==
  /\ pc = "extract"
  /\ \E ok \in BOOLEAN :
       /\ calls' = Append(calls, Call("extractTar", BuildDir, ok))
       /\ IF ok
            THEN /\ failures' = failures
                 /\ pc' = "mkdirInstall"
            ELSE /\ failures' = SourceFailure
                 /\ pc' = "done"
  /\ UNCHANGED <<inputs, fpmVersion, cand, fpmPath, files, dirs, pathDirs, srcVars>>

\* lines 270-273: create the installation directory
MakeInstallDir ==
  /\ pc = "mkdirInstall"
  /\ \E ok \in BOOLEAN :
       /\ calls' = Append(calls, Call("mkdirP", InstallDir, ok))
       /\ IF ok
            THEN /\ dirs' = dirs \cup {InstallDir}
                 /\ failures' = failures
                 /\ pc' = "install"
            ELSE /\ dirs' = dirs
                 /\ failures' = SourceFailure
                 /\ pc' = "done"
  /\ UNCHANGED <<inputs, fpmVersion, cand, fpmPath, files, pathDirs, srcVars>>

\* lines 265-266 and 275-287: run install.sh of the extracted source with FC
\* set to the compiler found, then core.addPath of the installation directory
RunInstallScript ==
  /\ pc = "install"
  /\ LET fpmSourceDir == FpmPrefix \o ReplaceFirst(fpmVersion, "v")
         arg == [cwd |-> fpmSourceDir, FC |-> gfortranCmd]
     IN \E ok \in BOOLEAN :
          IF ok
            THEN /\ calls' = calls \o <<Call("bash", arg, TRUE), Call("addPath", InstallDir, TRUE)>>
                 /\ pathDirs' = Append(pathDirs, InstallDir)
                 /\ failures' = failures
                 /\ pc' = "cleanup"
            ELSE /\ calls' = Append(calls, Call("bash", arg, FALSE))
                 /\ pathDirs' = pathDirs
                 /\ failures' = SourceFailure
                 /\ pc' = "done"
  /\ UNCHANGED <<inputs, fpmVersion, cand, fpmPath, files, dirs, srcVars>>

\* lines 289-290: remove the build directory
Cleanup ==
  /\ pc = "cleanup"
  /\ \E ok \in BOOLEAN :
       /\ calls' = Append(calls, Call("rmRF", BuildDir, ok))
       /\ IF ok
            THEN /\ dirs' = dirs \ {BuildDir}
                 /\ failures' = failures
            ELSE /\ dirs' = dirs
                 /\ failures' = SourceFailure
  /\ pc' = "done"
  /\ UNCHANGED <<inputs, fpmVersion, cand, fpmPath, files, pathDirs, srcVars>>

Next ==
  \/ ReadInputs
  \/ QueryLatest
  \/ BuildPath
  \/ DownloadUntagged
  \/ DownloadSuffixed
  \/ Exhausted
  \/ Chmod
  \/ Rename
  \/ WhichGfortran
  \/ WhichVersioned
  \/ DownloadSource
  \/ MakeBuildDir
  \/ ExtractTar
  \/ MakeInstallDir
  \/ RunInstallScript
  \/ Cleanup

Spec == Init /\ [][Next]_vars

\* the run as Node.js schedules it: every awaited call settles, and the
\* continuation of a settled await is run
FairSpec == Spec /\ WF_vars(Next)

TypeOK ==
  /\ pc \in {"start", "query", "build", "fetch", "suffix", "exhausted", "chmod", "mv",
             "which", "whichVersioned", "tarball", "mkdirBuild", "extract",
             "mkdirInstall", "install", "cleanup", "done"}
  /\ cand \in 1..(Len(compilers) + 1)
  /\ ver \in 1..(Len(gfortranVersions) + 1)

\* ------------------------------------------------------------ observers
SupportedPlatforms == {"linux", "darwin", "win32"}

IsFetch(c) == c.op = "downloadTool" /\ c.arg.kind = "releases/download"
IsArchiveDownload(c) == c.op = "downloadTool" /\ c.arg.kind = "archive/refs/tags"
IsProbe(c) == c.op = "which"
IsFinalization(c) == c.op \in {"chmod", "mv", "addPath"}

\* the prebuilt-artifact fetch attempts made so far, in order
Fetches == SelectSeq(calls, IsFetch)
Probes == SelectSeq(calls, IsProbe)
FinalizationOps == LET F == SelectSeq(calls, IsFinalization) IN [i \in 1..Len(F) |-> F[i].op]

Did(op) == \E i \in 1..Len(calls) : calls[i].op = op
DidOk(op) == \E i \in 1..Len(calls) : calls[i].op = op /\ calls[i].ok
DidFail(op) == \E i \in 1..Len(calls) : calls[i].op = op /\ ~calls[i].ok

SomeFetchOk == \E i \in 1..Len(Fetches) : Fetches[i].ok
AllFetchesFailed == Len(Fetches) = 6 /\ \A i \in 1..6 : ~Fetches[i].ok

\* nothing of the source-build pipeline has run
NoSourceBuildStep ==
  /\ pc \notin {"which", "whichVersioned", "tarball", "mkdirBuild", "extract",
                "mkdirInstall", "install", "cleanup"}
  /\ \A i \in 1..Len(calls) :
        /\ calls[i].op \notin {"which", "mkdirP", "extractTar", "bash", "rmRF"}
        /\ ~IsArchiveDownload(calls[i])

\* the candidate suffixes as the specification lists them
CandidateTags == << <<>> >> \o [i \in 1..5 |-> <<"g", "c", "c", "-">> \o ToDigits(9 + i)]

\* C1: with an explicit version on a supported platform the fetch attempts
\* are a prefix of [untagged, gcc-10, .., gcc-14] for the requested tag, only
\* the last attempt can have succeeded, and fpmPath holds the file of exactly
\* that successful attempt (and nothing when no attempt succeeded)
C1_CascadeIsPrefixEndingAtFirstSuccess ==
  (versionInput # Latest /\ platform \in SupportedPlatforms) =>
    /\ Len(Fetches) <= 6
    /\ \A i \in 1..Len(Fetches) :
          /\ Fetches[i].arg.tag = versionInput
          /\ Fetches[i].arg.file = getFPMFilename(versionInput, platform, arch, CandidateTags[i]).name
          /\ Fetches[i].ok => /\ i = Len(Fetches)
                              /\ fpmPath = [dir |-> TempDir, base |-> <<"uuid">> \o ToDigits(i - 1)]
                              /\ pc \notin {"fetch", "suffix", "exhausted"}
    /\ ~SomeFetchOk => fpmPath = undefined

C1_Witness ==
  /\ versionInput # Latest /\ platform \in SupportedPlatforms
  /\ pc = "done"
  /\ Len(Fetches) = 3
  /\ ~Fetches[1].ok /\ ~Fetches[2].ok /\ Fetches[3].ok
  /\ Fetches[3].arg.file = getFPMFilename(versionInput, platform, arch, CandidateTags[3]).name
  /\ fpmPath # undefined

\* C2 as stated: with an explicit version on a supported platform, a run in
\* which some candidate was fetched ends without the failed status and with
\* the download directory on PATH
C2_AnyFetchedRunSucceeds ==
  (versionInput # Latest /\ platform \in SupportedPlatforms /\ pc = "done" /\ SomeFetchOk) =>
    (~failed /\ pathDirs = <<TempDir>>)

\* C2 amended: failed fetches alone never set the failed status (it is unset
\* as long as the cascade and the finalization are under way), and a run in
\* which some candidate was fetched and neither chmod nor the rename threw
\* ends without the failed status and with the download directory on PATH
C2_FetchFailureAloneNotFatal ==
  (versionInput # Latest /\ platform \in SupportedPlatforms) =>
    /\ pc \in {"fetch", "suffix", "chmod", "mv"} => ~failed
    /\ (pc = "done" /\ SomeFetchOk /\ ~DidFail("chmod") /\ ~DidFail("mv")) =>
          (~failed /\ pathDirs = <<fpmPath.dir>> /\ fpmPath.dir = TempDir)

C2_Witness ==
  /\ versionInput # Latest /\ platform \in SupportedPlatforms
  /\ pc = "done"
  /\ Len(Fetches) = 4 /\ Fetches[4].ok
  /\ ~failed
  /\ pathDirs = <<TempDir>>

\* numeric versions the gate is meant to reject (major 0, minor below 9) and
\* to accept, written out from the bounds
LegacyVersions ==
  {pre \o <<"0", ".">> \o ToDigits(mi) \o <<".">> \o ToDigits(pa) :
     pre \in {<<>>, <<"v">>}, mi \in {m \in 0..MaxMinor : m < 9}, pa \in 0..MaxPatch}

BuildableVersions == NumericVersions \ LegacyVersions

\* C3: on darwin/arm64, once all six candidates have failed and the run has
\* decided what to do, a version with major 0 and minor below 9 has ended
\* the run failed with no step of the source build taken and nothing on
\* PATH, and any other numeric version has entered the source build
C3_GateDecidesSourceBuild ==
  (platform = "darwin" /\ arch = "arm64" /\ AllFetchesFailed /\ pc # "exhausted") =>
    /\ fpmVersion \in LegacyVersions =>
          /\ pc = "done" /\ failed
          /\ NoSourceBuildStep
          /\ pathDirs = <<>>
    /\ fpmVersion \in BuildableVersions =>
          /\ pc = "which" \/ Did("which")
          /\ "SourceBuildUnsupported" \notin {failures[i] : i \in 1..Len(failures)}

C3_Witness ==
  /\ platform = "darwin" /\ arch = "arm64" /\ AllFetchesFailed
  /\ fpmVersion = <<"v", "0", ".", "8", ".", "0">>
  /\ pc = "done" /\ failed /\ calls = Fetches

\* C4: off darwin/arm64, once all six candidates have failed and the run
\* has acted on it, the run is over and failed, no source-build step was
\* taken, the gate's message was not issued, and no chmod, rename or PATH
\* registration was made
C4_ExhaustionIsTerminalElsewhere ==
  (~(platform = "darwin" /\ arch = "arm64") /\ AllFetchesFailed /\ pc # "exhausted") =>
    /\ pc = "done" /\ failed
    /\ "FetchFailed" \in {failures[i] : i \in 1..Len(failures)}
    /\ "SourceBuildUnsupported" \notin {failures[i] : i \in 1..Len(failures)}
    /\ NoSourceBuildStep
    /\ FinalizationOps = <<>>
    /\ pathDirs = <<>>

C4_Witness ==
  /\ platform = "darwin" /\ arch = "x64" /\ AllFetchesFailed
  /\ pc = "done" /\ failed /\ pathDirs = <<>>

\* C5: on a platform other than linux, darwin and win32 the run fails
\* without attempting any fetch and without registering anything on PATH
C5_UnknownPlatformShortCircuits ==
  platform \notin SupportedPlatforms =>
    /\ Fetches = <<>>
    /\ pathDirs = <<>>
    /\ pc = "done" => failed

\* C6: when the selector is 'latest' and the release query failed, the
\* query was issued once, and no download, source-build step or PATH
\* registration follows; the run ends failed
C6_LatestFailureIsFatal ==
  (versionInput = Latest /\ DidFail("getLatestReleaseVersion")) =>
    /\ Cardinality({i \in 1..Len(calls) : calls[i].op = "getLatestReleaseVersion"}) = 1
    /\ ~Did("downloadTool")
    /\ NoSourceBuildStep
    /\ pathDirs = <<>>
    /\ pc = "done" => failed

\* the finalization the prebuilt path performs on this platform
CascadeFinalization == IF platform \in {"linux", "darwin"} THEN <<"chmod", "mv", "addPath">>
                       ELSE <<"mv", "addPath">>

\* C7 as stated: every successful run, by either path, performs the same
\* finalization steps (chmod off Windows, rename, PATH registration)
C7_SameFinalizationOnBothPaths ==
  (pc = "done" /\ ~failed) => FinalizationOps = CascadeFinalization

\* C7 amended: every successful run registers exactly one directory on PATH
\* as its last finalization step; after the cascade it is preceded by chmod
\* (linux, darwin) and the rename, after the source build it is the only
\* finalization step and registers the installation directory
C7_FinalizationPerPath ==
  (pc = "done" /\ ~failed) =>
    IF Did("bash")
      THEN FinalizationOps = <<"addPath">> /\ pathDirs = <<InstallDir>>
      ELSE FinalizationOps = CascadeFinalization /\ pathDirs = <<fpmPath.dir>>

C7_Witness ==
  /\ pc = "done" /\ ~failed
  /\ DidOk("bash")
  /\ pathDirs = <<InstallDir>>
  /\ ~Did("mv") /\ ~Did("chmod")

\* C8: every PATH registration of the prebuilt path directly follows a
\* successful rename of the downloaded file to fpm (fpm.exe on win32) inside
\* its own directory, the directory registered; on linux and darwin that
\* rename directly follows a successful chmod of the same file, on other
\* platforms no chmod is ever run; and a run on linux or darwin that ends
\* without failure after a fetch leaves an executable fpm in that directory
C8_FinalizationOrder ==
  /\ \A k \in 1..Len(calls) :
        (calls[k].op = "addPath" /\ ~Did("bash")) =>
          /\ k > 1
          /\ calls[k - 1].op = "mv" /\ calls[k - 1].ok
          /\ calls[k - 1].arg.from = fpmPath
          /\ calls[k - 1].arg.to.dir = fpmPath.dir
          /\ calls[k - 1].arg.to.base = (IF platform = "win32" THEN <<"f", "p", "m", ".", "e", "x", "e">>
                                         ELSE <<"f", "p", "m">>)
          /\ calls[k].arg = fpmPath.dir
          /\ platform \in {"linux", "darwin"} =>
                k > 2 /\ calls[k - 2].op = "chmod" /\ calls[k - 2].ok /\ calls[k - 2].arg = fpmPath
  /\ \A k \in 1..Len(calls) :
        calls[k].op = "mv" => /\ SomeFetchOk
                              /\ platform \in {"linux", "darwin"} => k > 1 /\ calls[k - 1].op = "chmod" /\ calls[k - 1].ok
  /\ platform \notin {"linux", "darwin"} => ~Did("chmod")
  /\ (pc = "done" /\ ~failed /\ SomeFetchOk /\ platform \in {"linux", "darwin"}) =>
        /\ Len(pathDirs) = 1
        /\ [dir |-> pathDirs[1], base |-> <<"f", "p", "m">>, exec |-> TRUE] \in files

C8_Witness ==
  /\ versionInput = <<"v", "0", ".", "1", "0", ".", "1">>
  /\ platform = "linux" /\ arch = "x64"
  /\ Len(Fetches) = 1 /\ Fetches[1].ok
  /\ pc = "done" /\ ~failed
  /\ pathDirs = <<TempDir>>
  /\ [dir |-> TempDir, base |-> <<"f", "p", "m">>, exec |-> TRUE] \in files

\* the unversioned probe and the four versioned probes were made and failed
NoCompilerFound == Len(Probes) = 5 /\ \A i \in 1..5 : ~Probes[i].ok

\* C9: when neither gfortran nor gfortran-13 .. gfortran-10 is found the run
\* is over with the compiler-not-found failure, and no archive was
\* downloaded, no directory created, no install script run, nothing put on PATH
C9_NoCompilerStopsPipeline ==
  NoCompilerFound =>
    /\ [i \in 1..5 |-> Probes[i].arg] =
         <<Gfortran>> \o [i \in 1..4 |-> Gfortran \o <<"-">> \o ToDigits(14 - i)]
    /\ pc = "done"
    /\ failures # <<>> /\ failures[Len(failures)] = "CompilerNotFound"
    /\ \A i \in 1..Len(calls) :
          /\ ~IsArchiveDownload(calls[i])
          /\ calls[i].op \notin {"mkdirP", "extractTar", "bash", "addPath", "rmRF"}
    /\ dirs = {}
    /\ pathDirs = <<>>

C9_Witness ==
  /\ NoCompilerFound
  /\ pc = "done"
  /\ failures = <<"CompilerNotFound">>

\* the build workspace was created during this run
WorkspaceCreated == \E i \in 1..Len(calls) :
                      calls[i].op = "mkdirP" /\ calls[i].arg = BuildDir /\ calls[i].ok

\* C10: a run that created the build workspace has removed it by the time
\* it ends, whether the later stages succeeded or failed
C10_WorkspaceRemovedAtEnd ==
  (pc = "done" /\ WorkspaceCreated) => BuildDir \notin dirs

\* C11: in the source build, when the install script succeeded and the
\* installation directory was registered on PATH, a throw of the workspace
\* cleanup does not leave the run with the failed status
C11_CleanupFailureDoesNotMask ==
  (pc = "done" /\ DidOk("bash") /\ pathDirs = <<InstallDir>> /\ DidFail("rmRF")) => ~failed

\* the version with one leading 'v' removed, unchanged when it has none
LeadingVRemoved(version) ==
  IF version # <<>> /\ Head(version) = "v" THEN Tail(version) ELSE version

\* the version gate as the specification words it: drop a leading v, split
\* on '.', read the first two components as numbers; rejected when the
\* first is 0 and the second is below 9
GateRejects(version) ==
  LET parts == Split(LeadingVRemoved(version), ".")
  IN /\ Len(parts) >= 2
     /\ Number(parts[1]) = Num(0)
     /\ ~Number(parts[2]).nan
     /\ Number(parts[2]).val < 9

\* the gate has been consulted in this run and has rejected the version
GateRejected == "SourceBuildUnsupported" \in {failures[i] : i \in 1..Len(failures)}

\* the gate has been consulted in this run (darwin/arm64, all candidates failed)
GateConsulted == platform = "darwin" /\ arch = "arm64" /\ AllFetchesFailed /\ pc # "exhausted"

\* C12: whenever the gate is consulted it rejects the source build exactly
\* for the versions with major 0 and minor below 9, and lets every other
\* version into the source build, non-numeric tags included; v0.8.0 is
\* rejected, v0.9.0, v1.2.0 and the tags 'dev' and 'latest' are let in
C12_GateRejectsExactlyLegacy ==
  GateConsulted =>
    /\ GateRejected <=> GateRejects(fpmVersion)
    /\ GateRejected <=> fpmVersion \in LegacyVersions \cup {<<"v", "0", ".">>}
    /\ ~GateRejected => (pc = "which" \/ Did("which"))
    /\ fpmVersion = <<"v", "0", ".", "8", ".", "0">> => GateRejected
    /\ fpmVersion \in {<<"v", "0", ".", "9", ".", "0">>, <<"v", "1", ".", "2", ".", "0">>,
                       <<"d", "e", "v">>, Latest} => ~GateRejected

C12_Witness ==
  /\ GateConsulted
  /\ fpmVersion = <<"d", "e", "v">>
  /\ ~GateRejected
  /\ Did("which")

\* s ends with the characters of t
EndsWith(s, t) == Len(s) >= Len(t) /\ SubSeq(s, Len(s) - Len(t) + 1, Len(s)) = t

\* the artifact name as the specification composes it, from the version
\* token, the OS name, the architecture name, the optional compiler tag and
\* the optional extension, in that order
ArtifactName(versionTok, osName, archName, tag, exe) ==
  <<"f", "p", "m", "-">> \o versionTok \o <<"-">> \o osName \o <<"-">> \o archName
    \o (IF tag = <<>> THEN <<>> ELSE <<"-">> \o tag)
    \o (IF exe THEN <<".", "e", "x", "e">> ELSE <<>>)

OsName(plat) == IF plat = "linux" THEN <<"l", "i", "n", "u", "x">>
                ELSE IF plat = "darwin" THEN <<"m", "a", "c", "o", "s">>
                ELSE <<"w", "i", "n", "d", "o", "w", "s">>

ArchName(ar) == IF ar = "arm64" THEN <<"a", "r", "m", "6", "4">>
                ELSE <<"x", "8", "6", "_", "6", "4">>

\* C13: on a supported platform every name handed to the fetcher is
\* 'fpm-' + version token + '-' + OS name + '-' + architecture name
\* [+ '-' + compiler tag] [+ '.exe'] in that order (the version token being
\* the requested tag once the code has dropped its 'v'); it ends in '.exe'
\* exactly on win32, and a compiler tag stands directly before the extension
C13_FilenameFormat ==
  platform \in SupportedPlatforms =>
    \A i \in 1..Len(Fetches) :
      LET file == Fetches[i].arg.file
          tag == CandidateTags[i]
      IN /\ file = ArtifactName(ReplaceFirst(Fetches[i].arg.tag, "v"), OsName(platform),
                                ArchName(arch), tag, platform = "win32")
         /\ EndsWith(file, <<".", "e", "x", "e">>) <=> platform = "win32"
         /\ tag # <<>> =>
              IF platform = "win32" THEN EndsWith(file, <<"-">> \o tag \o <<".", "e", "x", "e">>)
              ELSE EndsWith(file, <<"-">> \o tag)

C13_Witness ==
  /\ platform = "win32" /\ arch = "arm64"
  /\ versionInput = <<"v", "0", ".", "1", "0", ".", "1">>
  /\ Len(Fetches) = 2
  /\ Fetches[2].arg.file = <<"f", "p", "m", "-", "0", ".", "1", "0", ".", "1", "-",
                             "w", "i", "n", "d", "o", "w", "s", "-", "a", "r", "m", "6", "4", "-",
                             "g", "c", "c", "-", "1", "0", ".", "e", "x", "e">>

\* the compiler names in the order the specification has them probed
ProbeOrder == << <<"g", "f", "o", "r", "t", "r", "a", "n">> >>
              \o [i \in 1..4 |-> <<"g", "f", "o", "r", "t", "r", "a", "n", "-">> \o ToDigits(14 - i)]

\* the compiler discovery of this run is over
DiscoveryOver == Probes # <<>> /\ pc # "whichVersioned"

\* C14: the probes are gfortran, then gfortran-13, -12, -11, -10 in that
\* order, each once; the versioned probes are made whatever the first probe
\* answered and stop at the first one found; the install script gets as FC
\* the versioned compiler found, and plain gfortran only when no versioned
\* probe succeeded and the unversioned one did
C14_CompilerDiscovery ==
  /\ Len(Probes) <= 5
  /\ \A i \in 1..Len(Probes) :
       /\ Probes[i].arg = ProbeOrder[i]
       /\ (i >= 2 /\ Probes[i].ok) => i = Len(Probes)
  /\ DiscoveryOver =>
       /\ Len(Probes) >= 2
       /\ Probes[Len(Probes)].ok \/ Len(Probes) = 5
  /\ \A k \in 1..Len(calls) :
       calls[k].op = "bash" =>
         /\ DiscoveryOver
         /\ IF Probes[Len(Probes)].ok
              THEN calls[k].arg.FC = ProbeOrder[Len(Probes)]
              ELSE calls[k].arg.FC = ProbeOrder[1] /\ Probes[1].ok

C14_Witness ==
  /\ Len(Probes) = 3
  /\ Probes[1].ok /\ ~Probes[2].ok /\ Probes[3].ok
  /\ \E k \in 1..Len(calls) :
       /\ calls[k].op = "bash"
       /\ calls[k].arg.FC = <<"g", "f", "o", "r", "t", "r", "a", "n", "-", "1", "2">>

\* a call of a source-build stage after the compiler discovery
IsStage(c) == \/ IsArchiveDownload(c)
              \/ c.op \in {"mkdirP", "extractTar", "bash", "rmRF"}
              \/ (c.op = "addPath" /\ c.arg = InstallDir)

Stages == SelectSeq(calls, IsStage)

\* archive download, workspace creation, extraction, installation
\* directory, install script, PATH registration, cleanup
StageOrder == <<"downloadTool", "mkdirP", "extractTar", "mkdirP", "bash", "addPath", "rmRF">>

\* C15: the source build runs compiler discovery, archive download,
\* workspace creation and extraction, install script and PATH registration
\* in this order, each at most once; a stage is only started when all
\* earlier ones succeeded, and a stage that fails ends the run with the
\* failed status, so that neither the install script nor the PATH
\* registration follows a failure
C15_StagesInOrderFailureStops ==
  /\ Len(Stages) <= Len(StageOrder)
  /\ \A i \in 1..Len(Stages) :
       /\ Stages[i].op = StageOrder[i]
       /\ i < Len(Stages) => Stages[i].ok
  /\ \A i, j \in 1..Len(calls) : (IsProbe(calls[i]) /\ IsStage(calls[j])) => i < j
  /\ Stages # <<>> => (DiscoveryOver /\ ~NoCompilerFound)
  /\ NoCompilerFound => (pc = "done" /\ failed)
  /\ (Stages # <<>> /\ ~Stages[Len(Stages)].ok) => (pc = "done" /\ failed)
  /\ (\E i \in 1..Len(Stages) : ~Stages[i].ok /\ i <= 5) => (pathDirs = <<>> /\ ~DidOk("bash"))

C15_Witness ==
  /\ Len(Stages) = 3
  /\ Stages[3].op = "extractTar" /\ ~Stages[3].ok
  /\ pc = "done" /\ failed
  /\ ~Did("bash") /\ pathDirs = <<>>

\* s starts with the characters of t
StartsWith(s, t) == Len(s) >= Len(t) /\ SubSeq(s, 1, Len(t)) = t

\* C16: the version token in every artifact name fetched and in the source
\* directory handed to the install script is the version with one leading
\* 'v' removed, and the version itself when it does not start with 'v', also
\* when a 'v' stands later in it; the gate decides on that same token
C16_OnlyLeadingVRemoved ==
  /\ \A i \in 1..Len(Fetches) :
       StartsWith(Fetches[i].arg.file,
                  <<"f", "p", "m", "-">> \o LeadingVRemoved(Fetches[i].arg.tag) \o <<"-">>)
  /\ \A k \in 1..Len(calls) :
       calls[k].op = "bash" => calls[k].arg.cwd = <<"f", "p", "m", "-">> \o LeadingVRemoved(fpmVersion)
  /\ GateConsulted => (GateRejected <=> GateRejects(fpmVersion))

\* C17: on a supported platform, for every architecture value other than
\* 'arm64' ('x64' and unrecognized ones alike) the names fetched are the
\* names of an x64 host, carrying x86_64, and building them reports no
\* failure; only 'arm64' gives the arm64 names
C17_ArchMappingTotal ==
  platform \in SupportedPlatforms =>
    /\ "UnknownPlatform" \notin {failures[i] : i \in 1..Len(failures)}
    /\ \A i \in 1..Len(Fetches) :
         LET file == Fetches[i].arg.file
             tok == ReplaceFirst(Fetches[i].arg.tag, "v")
             x64Name == getFPMFilename(Fetches[i].arg.tag, platform, "x64", CandidateTags[i]).name
         IN /\ arch # "arm64" =>
                 /\ file = x64Name
                 /\ file = ArtifactName(tok, OsName(platform), <<"x", "8", "6", "_", "6", "4">>,
                                        CandidateTags[i], platform = "win32")
            /\ arch = "arm64" =>
                 /\ file # x64Name
                 /\ file = ArtifactName(tok, OsName(platform), <<"a", "r", "m", "6", "4">>,
                                        CandidateTags[i], platform = "win32")

C17_Witness ==
  /\ arch = "ia32" /\ platform = "linux"
  /\ versionInput = <<"v", "0", ".", "1", "0", ".", "1">>
  /\ Len(Fetches) = 1
  /\ Fetches[1].arg.file = <<"f", "p", "m", "-", "0", ".", "1", "0", ".", "1", "-",
                             "l", "i", "n", "u", "x", "-", "x", "8", "6", "_", "6", "4">>
  /\ ~failed

\* C18: every run comes to its end, and at its end the failed status is set
\* or a directory is registered on PATH (or both)
C18_TerminatesWithOutcome ==
  /\ <>(pc = "done")
  /\ [](pc = "done" => (failed \/ pathDirs # <<>>))

C18_Witness ==
  /\ pc = "done"
  /\ failed /\ pathDirs = <<InstallDir>>
  /\ DidFail("rmRF")

\* a step of the source-build pipeline has been taken or is about to be
SourceBuildEntered == ~NoSourceBuildStep

\* C19: no run both renames (or chmods) a downloaded binary and takes a
\* step of the source build; the source build is entered only on
\* darwin/arm64 after the six prebuilt candidates were all attempted and all
\* failed; and at most one directory is registered on PATH in a run
C19_PathsMutuallyExclusive ==
  /\ ~((Did("mv") \/ Did("chmod")) /\ SourceBuildEntered)
  /\ ~(Did("mv") /\ Did("bash"))
  /\ SourceBuildEntered => (AllFetchesFailed /\ fpmPath = undefined)
  /\ Len(pathDirs) <= 1

C19_Witness ==
  /\ pc = "cleanup"
  /\ AllFetchesFailed
  /\ DidOk("bash")
  /\ pathDirs = <<InstallDir>>
  /\ ~Did("mv")

====
